---------------------------- MODULE Spec2Model ----------------------------
(***************************************************************************)
(* Lucy-Richardson deconvolution estimators (src/LRDeconvolve.py):         *)
(* LRDeconvolve, LRFisterDeconvolve, LRL2Deconvolve and the cross-         *)
(* validated selector LRFisterGrid.                                        *)
(*                                                                         *)
(* Numbers.  A float is modelled by an extended rational <<n, d>>:         *)
(*   d > 0   the finite value n/d in lowest terms,                         *)
(*   <<1,0>> +inf,  <<-1,0>> -inf,  <<0,0>> NaN,                           *)
(* with the IEEE-754 rules numpy applies to division by zero, inf and NaN  *)
(* (numpy warns and goes on, it does not raise).  Finite arithmetic is     *)
(* exact (no rounding) and -0.0 is identified with +0.0.  np.sqrt and      *)
(* np.exp are defined where float64 gives a value this representation      *)
(* holds (Sqrt, ExpNegHalfSquare) and have no value elsewhere; the inputs  *)
(* of the specifications keep every fit inside that domain.                *)
(***************************************************************************)
EXTENDS Integers, Sequences, FiniteSets, TLC

(***************************************************************************)
(* Extended rational arithmetic (numpy float64 elementwise operators).     *)
(***************************************************************************)
Abs(k) == IF k < 0 THEN -k ELSE k

Sign(k) == IF k < 0 THEN -1 ELSE IF k > 0 THEN 1 ELSE 0

RECURSIVE Gcd(_, _)
Gcd(a, b) == IF b = 0 THEN a ELSE Gcd(b, a % b)

RNorm(n, d) ==
    IF d = 0 THEN <<Sign(n), 0>>
    ELSE LET g == Gcd(Abs(n), Abs(d))
         IN  <<Sign(d) * (n \div g), Abs(d) \div g>>

NaN == <<0, 0>>
PosInf == <<1, 0>>
NegInf == <<-1, 0>>
R(k) == <<k, 1>>
Q(n, d) == RNorm(n, d)

IsFinite(a) == a[2] > 0
IsNaN(a) == a = NaN

RNeg(a) == <<-a[1], a[2]>>

\* a + b : inf + (-inf) and anything with NaN are NaN
RAdd(a, b) ==
    IF a[2] = 0 \/ b[2] = 0
    THEN IF IsNaN(a) \/ IsNaN(b) THEN NaN
         ELSE IF a[2] = 0 /\ b[2] = 0 THEN (IF a = b THEN a ELSE NaN)
         ELSE IF a[2] = 0 THEN a ELSE b
    ELSE LET g == Gcd(a[2], b[2])
             l == (a[2] \div g) * b[2]
         IN  RNorm(a[1] * (l \div a[2]) + b[1] * (l \div b[2]), l)

RSub(a, b) == RAdd(a, RNeg(b))

\* a * b : 0 * inf is NaN
RMul(a, b) ==
    LET g1 == Gcd(Abs(a[1]), b[2])
        g2 == Gcd(Abs(b[1]), a[2])
    IN  IF a[2] = 0 \/ b[2] = 0 THEN <<Sign(a[1] * b[1]), 0>>
        ELSE RNorm((a[1] \div g1) * (b[1] \div g2), (a[2] \div g2) * (b[2] \div g1))

\* 1 / a : 1/0 is +inf, 1/inf is 0
RRecip(a) ==
    IF a[2] = 0 THEN (IF IsNaN(a) THEN NaN ELSE R(0))
    ELSE IF a[1] = 0 THEN PosInf
    ELSE RNorm(a[2], a[1])

\* a / b : x/0 is +-inf by the sign of x, 0/0 and inf/inf are NaN
RDiv(a, b) ==
    IF a[2] = 0 /\ b[2] = 0 THEN NaN
    ELSE IF b[2] > 0 /\ b[1] = 0 THEN <<Sign(a[1]), 0>>
    ELSE RMul(a, RRecip(b))

\* a < b on finite values
RLess(a, b) ==
    LET g == Gcd(a[2], b[2])
    IN  a[1] * (b[2] \div g) < b[1] * (a[2] \div g)

RLeq(a, b) == a = b \/ RLess(a, b)


(***************************************************************************)
(* Outcome of a computation that may raise: a value or a Python exception. *)
(***************************************************************************)
Ok(v) == [ok |-> TRUE, val |-> v, exc |-> "none"]

Err(e) == [ok |-> FALSE, val |-> <<>>, exc |-> e]

(***************************************************************************)
(* numpy / scipy / sklearn array primitives on 1-D signals (sequences of   *)
(* extended rationals) and 2-D batches (sequences of rows).                *)
(***************************************************************************)
\* a function on 1..n as a sequence
Tuple(f) == f \o <<>>

RECURSIVE RSum(_)
RSum(s) == IF s = <<>> THEN R(0) ELSE RAdd(Head(s), RSum(Tail(s)))

\* scipy.signal.convolve(in1, in2, mode='valid') on 1-D arrays (direct
\* method): the shorter operand slides over the longer one, the result has
\* |len(in1) - len(in2)| + 1 samples.  For 1-D operands it never raises.
convolve(in1, in2) ==
    LET vol == IF Len(in1) >= Len(in2) THEN in1 ELSE in2
        ker == IF Len(in1) >= Len(in2) THEN in2 ELSE in1
        s   == Len(ker)
    IN  Tuple([k \in 1..(Len(vol) - s + 1) |->
            RSum(Tuple([j \in 1..s |-> RMul(vol[k + s - j], ker[j])]))])

\* np.flip
flip(a) == Tuple([k \in 1..Len(a) |-> a[Len(a) + 1 - k]])

\* numpy broadcasting of two 1-D shapes
Broadcastable(p, q) == p = q \/ p = 1 \/ q = 1

\* index of element k of an operand of length n in a broadcast operation
BroadcastIndex(n, k) == IF n = 1 THEN 1 ELSE k

\* length of the result of a broadcast operation on operands a and b
BroadcastLen(a, b) == IF Len(a) = 1 THEN Len(b) ELSE Len(a)

\* a / b elementwise, with length-1 broadcasting
Divide(a, b) ==
    Tuple([k \in 1..BroadcastLen(a, b) |->
        RDiv(a[BroadcastIndex(Len(a), k)], b[BroadcastIndex(Len(b), k)])])

\* a * b elementwise, with length-1 broadcasting
Multiply(a, b) ==
    Tuple([k \in 1..BroadcastLen(a, b) |->
        RMul(a[BroadcastIndex(Len(a), k)], b[BroadcastIndex(Len(b), k)])])

\* np.mean(X, axis=0): the column means of a batch with at least one row
mean_axis0(X) ==
    Tuple([c \in 1..Len(X[1]) |->
        RDiv(RSum(Tuple([r \in 1..Len(X) |-> X[r][c]])), R(Len(X)))])

\* np.mean of a 1-D array
mean(x) == RDiv(RSum(x), R(Len(x)))

AllFinite(a) == \A k \in 1..Len(a) : IsFinite(a[k])

\* sklearn.metrics.mean_squared_error(y_true, y_pred) on 1-D arrays: raises
\* ValueError on inconsistent lengths (check_consistent_length) and on NaN
\* or infinity in either argument (check_array).
mean_squared_error(y_true, y_pred) ==
    IF Len(y_true) # Len(y_pred) THEN Err("ValueError")
    ELSE IF ~(AllFinite(y_true) /\ AllFinite(y_pred)) THEN Err("ValueError")
    ELSE Ok(RDiv(RSum(Tuple([k \in 1..Len(y_true) |->
                        LET e == RSub(y_true[k], y_pred[k]) IN RMul(e, e)])),
                 R(Len(y_true))))

(***************************************************************************)
(* np.sqrt and np.exp.                                                     *)
(***************************************************************************)
RECURSIVE ISqrtIn(_, _, _)
ISqrtIn(k, lo, hi) ==
    IF lo >= hi THEN lo
    ELSE LET mid == (lo + hi + 1) \div 2
         IN  IF mid * mid <= k THEN ISqrtIn(k, mid, hi) ELSE ISqrtIn(k, lo, mid - 1)

\* floor of the square root of a natural number
ISqrt(k) == ISqrtIn(k, 0, IF k < 46340 THEN k ELSE 46340)

\* np.sqrt: NaN (with a RuntimeWarning, no exception) for a negative
\* argument, -inf and NaN; +inf for +inf; the root of a square of a
\* rational.  An irrational root is no extended rational: Sqrt has no value
\* there (TLC stops on the empty CHOOSE).
Sqrt(a) ==
    IF IsNaN(a) \/ a[1] < 0 THEN NaN
    ELSE IF a[2] = 0 THEN PosInf
    ELSE LET sn == ISqrt(a[1])
             sd == ISqrt(a[2])
         IN  IF sn * sn = a[1] /\ sd * sd = a[2] THEN <<sn, sd>>
             ELSE CHOOSE r \in {} : RMul(r, r) = a

\* np.exp((-1/2) * t**2) in float64: NaN for NaN; exactly 0.0 for an
\* infinite t and when t*t/2 underflows (|t| >= 39); exactly 1.0 for t = 0
\* and when t*t/2 is below half an ulp of 1 (|t| <= 1e-8).  In between the
\* value is irrational: ExpNegHalfSquare has no value there (TLC stops on
\* the empty CHOOSE).
ExpNegHalfSquare(t) ==
    IF IsNaN(t) THEN NaN
    ELSE IF t[2] = 0 THEN R(0)
    ELSE IF t[1] = 0 THEN R(1)
    ELSE LET m == <<Abs(t[1]), t[2]>>
         IN  IF m[2] \div m[1] >= 100000000 THEN R(1)
             ELSE IF m[1] \div m[2] >= 39 THEN R(0)
             ELSE CHOOSE r \in {} : r = m


(***************************************************************************)
(* The deconvolution kernels: one pass of the loop body.                   *)
(***************************************************************************)
None == <<>>

\* LRDeconvolve._deconvolution_guess: the measured signal itself
\* (the Gaussian is computed and discarded)
_deconvolution_guess(measured_y) == measured_y

\* LRFisterDeconvolve._normalized_gaussian(x, mu, sigma)
_normalized_gaussian(x, mu, sigma) ==
    LET norm_gauss == Tuple([k \in 1..Len(x) |->
                          ExpNegHalfSquare(RDiv(RSub(x[k], mu), sigma))])
        total == RSum(norm_gauss)
    IN  Tuple([k \in 1..Len(x) |-> RDiv(norm_gauss[k], total)])

\* The Lucy-Richardson update shared by the three loops:
\*   I = convolve(previous_O, h); relative_blur = measured_y / I;
\*   correction = convolve(relative_blur, flip(h)); current_O = previous_O * correction.
\* The two elementwise operators raise ValueError when the shapes do not
\* broadcast; a length-1 operand broadcasts silently.
LRUpdate(impulse_response_y, measured_y, previous_O) ==
    LET I == convolve(previous_O, impulse_response_y)
    IN  IF ~Broadcastable(Len(measured_y), Len(I)) THEN Err("ValueError")
        ELSE LET relative_blur == Divide(measured_y, I)
                 correction_factor_estimate ==
                     convolve(relative_blur, flip(impulse_response_y))
             IN  IF ~Broadcastable(Len(previous_O), Len(correction_factor_estimate))
                 THEN Err("ValueError")
                 ELSE Ok(Multiply(previous_O, correction_factor_estimate))

\* current_O = (-1 + np.sqrt(1 + 2*alpha*current_O)) / alpha, elementwise
L2Correction(alpha, current_O) ==
    Tuple([k \in 1..Len(current_O) |->
        RDiv(RAdd(R(-1),
                  Sqrt(RAdd(R(1), RMul(RMul(R(2), alpha), current_O[k])))),
             alpha)])

\* The body of the loop of _LR, _LR_fister (both branches) and _LRL2,
\* without the telemetry call: the Lucy-Richardson update lr, then the
\* smoothing by the Gaussian (_LR_fister) or the L2 correction (_LRL2).
Regularized(c, lr) ==
    IF ~lr.ok THEN lr
    ELSE IF c.kind = "LRFisterDeconvolve"
    THEN Ok(convolve(lr.val,
                     _normalized_gaussian(c.impulse_response_x,
                                          mean(c.impulse_response_x),
                                          c.regularizer_width)))
    ELSE IF c.kind = "LRL2Deconvolve"
    THEN Ok(L2Correction(c.alpha, lr.val))
    ELSE lr

LoopBody(c, measured_y, previous_O) ==
    Regularized(c, LRUpdate(c.impulse_response_y, measured_y, previous_O))

(***************************************************************************)
(* Convergence telemetry.                                                  *)
(***************************************************************************)
\* Whether the loop of the estimator calls _save_iteration_stats: _LR always,
\* _LR_fister only in its logging branch, _LRL2 never.
Logs(c) ==
    \/ c.kind = "LRDeconvolve"
    \/ c.kind = "LRFisterDeconvolve" /\ c.logging

\* The directory of the summary writer the loop opens.
LogDir(c) ==
    IF c.kind = "LRFisterDeconvolve"
    THEN [dir |-> "logdir_test", sub |-> c.regularizer_width]
    ELSE [dir |-> "logdir_test", sub |-> None]

\* LRDeconvolve._save_iteration_stats(current_deconvolved, iteration): the
\* scalars written before it returns or raises.  `writes` is the sequence
\* of <<tag, value>> given to tf.summary.scalar, `exc` the exception raised
\* ("none" when it returns).
_save_iteration_stats(c, measured_y_, current_deconvolved) ==
    LET current_reconstruction == convolve(current_deconvolved, c.impulse_response_y)
        reconstruction_mse == mean_squared_error(current_reconstruction, measured_y_)
        w1 == <<<<"reconstruction_mse", reconstruction_mse.val>>>>
    IN  IF ~reconstruction_mse.ok
        THEN [writes |-> <<>>, exc |-> reconstruction_mse.exc]
        ELSE IF c.ground_truth_y = None
        THEN [writes |-> w1, exc |-> "none"]
        ELSE LET deconvolved_mse ==
                     mean_squared_error(current_deconvolved, c.ground_truth_y)
                 ground_truth_reconvolved ==
                     convolve(c.ground_truth_y, c.impulse_response_y)
                 reconvolved_mse ==
                     mean_squared_error(current_reconstruction, ground_truth_reconvolved)
                 w2 == Append(w1, <<"deconvolved_mse", deconvolved_mse.val>>)
             IN  IF ~deconvolved_mse.ok
                 THEN [writes |-> w1, exc |-> deconvolved_mse.exc]
                 ELSE IF ~reconvolved_mse.ok
                 THEN [writes |-> w2, exc |-> reconvolved_mse.exc]
                 ELSE [writes |-> Append(w2, <<"reconvolved_mse", reconvolved_mse.val>>),
                       exc |-> "none"]


(***************************************************************************)
(* Inputs: constructor arguments and measurement batches.                  *)
(***************************************************************************)
MaxIter == 2
MaxFits == 2

Range(f) == {f[k] : k \in DOMAIN f}

\* (impulse_response_x, impulse_response_y) of 1, 2 and 3 samples
ImpulseResponses ==
    { [x |-> <<R(0)>>, y |-> <<R(2)>>],
      [x |-> <<R(0), R(1)>>, y |-> <<R(1), R(1)>>],
      [x |-> <<R(-1), R(0), R(1)>>, y |-> <<R(1), R(1), R(0)>>] }

\* ground_truth_y: absent, or a signal of two samples
GroundTruths == { None, <<R(1), R(3)>> }

\* regularizer_width of LRFisterDeconvolve: a Gaussian much narrower and one
\* much wider than the spacing of impulse_response_x
Widths == { Q(1, 100), R(1000000000) }

\* LRL2Deconvolve: alpha, and the impulse responses it is built with.  With
\* one sample of impulse response the Lucy-Richardson update returns the
\* measured signal, whose radicands 1 + 2*alpha*O are negative or squares
\* for the batches below.
Alphas == { R(4) }
L2ImpulseResponses == { ir \in ImpulseResponses : Len(ir.y) = 1 }

\* Measurement batches X: rows are measurements, columns are samples.
Batches ==
    { << <<R(0), R(2)>>, <<R(2), R(4)>> >>,
      << <<R(-1)>> >>,
      << <<R(0), R(1)>> >>,
      << <<R(1), R(3), R(6)>> >> }

Config(kind, ir, n, w, a, g, l) ==
    [kind |-> kind, impulse_response_x |-> ir.x, impulse_response_y |-> ir.y,
     iterations |-> n, regularizer_width |-> w, alpha |-> a,
     ground_truth_y |-> g, logging |-> l]

\* LRDeconvolve.__init__, LRFisterDeconvolve.__init__, LRL2Deconvolve.__init__
Configs ==
    { Config("LRDeconvolve", ir, n, None, None, g, FALSE) :
        ir \in ImpulseResponses, n \in 0..MaxIter, g \in GroundTruths }
    \cup
    { Config("LRFisterDeconvolve", ir, n, wl[1], None, g, wl[2]) :
        ir \in ImpulseResponses, n \in 0..MaxIter, g \in GroundTruths,
        wl \in Widths \X BOOLEAN }
    \cup
    { Config("LRL2Deconvolve", ir, n, None, a, g, FALSE) :
        ir \in L2ImpulseResponses, n \in 0..MaxIter, g \in GroundTruths,
        a \in Alphas }

(***************************************************************************)
(* State.                                                                  *)
(***************************************************************************)
VARIABLES
    cfg,    \* instance -> constructor parameters
    attrs,  \* instance -> fitted attributes: which are set (has) and their values
    frame,  \* instance -> the fit call in progress: position and locals
    ret,    \* instance -> outcome of the most recent call, once it has ended
            \* (arg: the argument of fit and score; predict does not read its own)
    hist,   \* instance -> history: number of fit calls, the last fit, the last successful fit
    sink,   \* the scalars written to the summary writers
    grid    \* the LRFisterGrid instance: parameters, position in fit, attributes

vars == <<cfg, attrs, frame, ret, hist, sink, grid>>

Insts == DOMAIN cfg

Unfit == [has |-> {}, measured_y_ |-> None, deconvolved_y_ |-> None,
          reconvolved_y_ |-> None]

Idle == [pc |-> "idle", X |-> None, measured_y |-> None, previous_O |-> None,
         current_O |-> None, iteration |-> 0, trace |-> <<>>, logged |-> <<>>]

NoCall == [op |-> "none", arg |-> None, ok |-> TRUE, exc |-> "none", val |-> None]

NoFit == [X |-> None, ok |-> FALSE, exc |-> "none", steps |-> 0,
          trace |-> <<>>, logged |-> <<>>]

NoHist == [nfits |-> 0, last |-> NoFit, good |-> Unfit]

GridUnfit ==
    [has |-> {}, measured_y_ |-> None, deconvolved_y_ |-> None,
     reconvolved_y_ |-> None, gridsearch_cv_results_ |-> None,
     deconvolved_mse_ |-> None, reconvolved_mse_ |-> None, cv_ |-> None]

\* LRFisterGrid.__init__
GridConfig(ir, ws, n, g) ==
    [impulse_response_x |-> ir.x, impulse_response_y |-> ir.y,
     regularizer_widths |-> ws, iterations |-> n, ground_truth_y |-> g,
     pc |-> "idle", X |-> None, scores |-> <<>>, best_index_ |-> 0,
     best_estimator_ |-> Unfit, attrs |-> GridUnfit, ret |-> NoCall, nfits |-> 0]

\* Inputs of the selector: three samples of impulse response, batches of
\* two columns (one of them too short for five folds), grids of two widths.
GridImpulse == [x |-> <<R(-1), R(0), R(1)>>, y |-> <<R(1), R(1), R(0)>>]

GridWidths ==
    { <<Q(1, 100), R(1000000000)>>, <<R(1000000000), Q(1, 100)>> }

GridBatches ==
    { << <<R(1), R(3)>>, <<R(1), R(3)>>, <<R(1), R(3)>>, <<R(1), R(3)>>, <<R(1), R(3)>> >>,
      << <<R(1), R(3)>>, <<R(3), R(1)>>, <<R(2), R(2)>>, <<R(3), R(1)>>, <<R(1), R(3)>> >>,
      << <<R(1), R(3)>>, <<R(3), R(1)>> >> }

GridConfigs ==
    { GridConfig(GridImpulse, ws, 1, g) : ws \in GridWidths, g \in GroundTruths }

InitOn(insts, configs) ==
    /\ cfg \in [insts -> configs]
    /\ attrs = [i \in insts |-> Unfit]
    /\ frame = [i \in insts |-> Idle]
    /\ ret = [i \in insts |-> NoCall]
    /\ hist = [i \in insts |-> NoHist]
    /\ sink = {}


(***************************************************************************)
(* fit(X), in three steps: the call up to the loop, one pass of the loop,  *)
(* and the return of the kernel with the assignments that follow it.       *)
(***************************************************************************)
\* An exception leaves fit: the frame is dropped, nothing else is undone.
Raise(i, exc) ==
    /\ frame' = [frame EXCEPT ![i] = Idle]
    /\ ret' = [ret EXCEPT ![i] = [op |-> "fit", arg |-> frame[i].X, ok |-> FALSE,
                                  exc |-> exc, val |-> None]]
    /\ hist' = [hist EXCEPT ![i].last =
                   [X |-> frame[i].X, ok |-> FALSE, exc |-> exc,
                    steps |-> frame[i].iteration, trace |-> frame[i].trace,
                    logged |-> frame[i].logged]]

\* fit, lines before the loop: LRDeconvolve.fit and LRFisterDeconvolve.fit
\* store self.measured_y_ first, LRL2Deconvolve.fit keeps it in a local.
FitCall(i, X, budget) ==
    /\ frame[i].pc = "idle"
    /\ hist[i].nfits < budget
    /\ LET measured == mean_axis0(X)
           guess == _deconvolution_guess(measured)
       IN  /\ attrs' = IF cfg[i].kind = "LRL2Deconvolve" THEN attrs
                       ELSE [attrs EXCEPT ![i].has = @ \cup {"measured_y_"},
                                          ![i].measured_y_ = measured]
           /\ frame' = [frame EXCEPT ![i] =
                           [pc |-> "loop", X |-> X, measured_y |-> measured,
                            previous_O |-> guess, current_O |-> None,
                            iteration |-> 0, trace |-> <<guess>>, logged |-> <<>>]]
    /\ hist' = [hist EXCEPT ![i].nfits = @ + 1]
    /\ ret' = [ret EXCEPT ![i] = NoCall]
    /\ UNCHANGED <<cfg, sink, grid>>

\* A loop that stops one pass early.
LoopDoneEarly(c, f) == f.iteration >= c.iterations - 1

\* `for iteration in range(self.iterations)` is exhausted
LoopDone(c, f) == f.iteration >= c.iterations

\* One pass of `for iteration in range(self.iterations)`.
FitIter(i) ==
    LET c == cfg[i]
        f == frame[i]
        body == LoopBody(c, f.measured_y, f.previous_O)
        stats == IF body.ok /\ Logs(c)
                 THEN _save_iteration_stats(c, attrs[i].measured_y_, body.val)
                 ELSE [writes |-> <<>>, exc |-> "none"]
    IN  /\ f.pc = "loop"
        /\ ~LoopDone(c, f)
        /\ sink' = sink \cup
                   { [ns |-> LogDir(c), tag |-> w[1], step |-> f.iteration,
                      val |-> w[2], by |-> i] : w \in Range(stats.writes) }
        /\ IF ~body.ok THEN Raise(i, body.exc)
           ELSE IF stats.exc # "none" THEN Raise(i, stats.exc)
           ELSE /\ frame' = [frame EXCEPT ![i].previous_O = body.val,
                                          ![i].current_O = body.val,
                                          ![i].iteration = @ + 1,
                                          ![i].trace = Append(@, body.val),
                                          ![i].logged = @ \o
                                              [k \in 1..Len(stats.writes) |->
                                                  <<stats.writes[k][1], f.iteration>>]]
                /\ UNCHANGED <<ret, hist>>
        /\ UNCHANGED <<cfg, attrs, grid>>

\* The loop is exhausted: `return current_O` (unbound when the loop never
\* ran), then fit stores deconvolved_y_ and reconvolved_y_ and returns self.
FitReturn(i) ==
    LET c == cfg[i]
        f == frame[i]
        fitted == [attrs[i] EXCEPT
                      !.has = @ \cup {"deconvolved_y_", "reconvolved_y_"},
                      !.deconvolved_y_ = f.current_O,
                      !.reconvolved_y_ = convolve(f.current_O, c.impulse_response_y)]
    IN  /\ f.pc = "loop"
        /\ LoopDone(c, f)
        /\ IF f.current_O = None
           THEN Raise(i, "UnboundLocalError") /\ UNCHANGED attrs
           ELSE /\ attrs' = [attrs EXCEPT ![i] = fitted]
                /\ frame' = [frame EXCEPT ![i] = Idle]
                /\ ret' = [ret EXCEPT ![i] =
                              [op |-> "fit", arg |-> f.X, ok |-> TRUE, exc |-> "none",
                               val |-> None]]
                /\ hist' = [hist EXCEPT ![i].last =
                               [X |-> f.X, ok |-> TRUE, exc |-> "none",
                                steps |-> f.iteration, trace |-> f.trace,
                                logged |-> f.logged],
                                        ![i].good = fitted]
        /\ UNCHANGED <<cfg, sink, grid>>

(***************************************************************************)
(* predict(X) and score(X_test).                                           *)
(***************************************************************************)
\* Fitted attributes that exist from construction on, holding None.
GetAttrDefault(a, name) == Ok(a[name])

\* Reading a fitted attribute that was never assigned raises AttributeError.
GetAttr(a, name) ==
    IF name \in a.has THEN Ok(a[name]) ELSE Err("AttributeError")

\* LRDeconvolve.predict: return self.deconvolved_y_
predict(a, X) == GetAttr(a, "deconvolved_y_")

\* A score that returns the mean squared error itself.
scoreUnsigned(a, X_test) ==
    LET reconvolved == GetAttr(a, "reconvolved_y_")
        mse == mean_squared_error(reconvolved.val, mean_axis0(X_test))
    IN  IF ~reconvolved.ok THEN reconvolved ELSE mse

\* LRDeconvolve.score: -1 * mean_squared_error(self.reconvolved_y_, mean of X_test)
score(a, X_test) ==
    LET mean_X_test == mean_axis0(X_test)
        reconvolved == GetAttr(a, "reconvolved_y_")
        mse == mean_squared_error(reconvolved.val, mean_X_test)
    IN  IF ~reconvolved.ok THEN reconvolved
        ELSE IF ~mse.ok THEN mse
        ELSE Ok(RMul(R(-1), mse.val))

Predict(i, X) ==
    /\ frame[i].pc = "idle"
    /\ LET r == predict(attrs[i], X)
       IN  ret' = [ret EXCEPT ![i] =
                      [op |-> "predict", arg |-> None, ok |-> r.ok, exc |-> r.exc,
                       val |-> r.val]]
    /\ UNCHANGED <<cfg, attrs, frame, hist, sink, grid>>

Score(i, X_test) ==
    /\ frame[i].pc = "idle"
    /\ LET r == score(attrs[i], X_test)
       IN  ret' = [ret EXCEPT ![i] =
                      [op |-> "score", arg |-> X_test, ok |-> r.ok, exc |-> r.exc,
                       val |-> r.val]]
    /\ UNCHANGED <<cfg, attrs, frame, hist, sink, grid>>



(***************************************************************************)
(* LRFisterGrid: cross-validated choice of regularizer_width.              *)
(***************************************************************************)
\* The estimator LRFisterGrid.fit hands to GridSearchCV, with one grid
\* point's regularizer_width set (clone + set_params); logging is False.
GridEstimator(g, width) ==
    Config("LRFisterDeconvolve",
           [x |-> g.impulse_response_x, y |-> g.impulse_response_y],
           g.iterations, width, None, g.ground_truth_y, FALSE)

\* The loop of _LR_fister in its non-logging branch: passes k+1 .. iterations
RECURSIVE FisterLoop(_, _, _, _)
FisterPass(c, measured_y, body, k) ==
    IF ~body.ok THEN body
    ELSE FisterLoop(c, measured_y, body.val, k + 1)

FisterLoop(c, measured_y, previous_O, k) ==
    IF k >= c.iterations THEN Ok(previous_O)
    ELSE FisterPass(c, measured_y, LoopBody(c, measured_y, previous_O), k)

\* LRFisterDeconvolve.fit, lines 213-215: O is the outcome of _LR_fister
FisterFitted(c, measured, O) ==
    IF c.iterations <= 0 THEN Err("UnboundLocalError")
    ELSE IF ~O.ok THEN O
    ELSE Ok([has |-> {"measured_y_", "deconvolved_y_", "reconvolved_y_"},
             measured_y_ |-> measured,
             deconvolved_y_ |-> O.val,
             reconvolved_y_ |-> convolve(O.val, c.impulse_response_y)])

FisterFitOf(c, measured) ==
    FisterFitted(c, measured,
                 FisterLoop(c, measured, _deconvolution_guess(measured), 0))

\* LRFisterDeconvolve.fit(X) with logging False, as one step: the fitted
\* attributes, or the exception.
FisterFit(c, X) == FisterFitOf(c, mean_axis0(X))

\* deconvolution_metrics.neg_reconvolved_mse(estimator, X): negative MSE
\* between the estimator's reconvolved signal and the column means of X
neg_reconvolved_mse(c, a, X) ==
    LET mse == mean_squared_error(a.reconvolved_y_, mean_axis0(X))
    IN  IF mse.ok THEN Ok(RMul(R(-1), mse.val)) ELSE mse

\* deconvolution_metrics.neg_deconvolved_mse(estimator, X): negative MSE
\* between the estimator's deconvolved signal and its ground truth
neg_deconvolved_mse(c, a, X) ==
    LET mse == mean_squared_error(a.deconvolved_y_, c.ground_truth_y)
    IN  IF mse.ok THEN Ok(RMul(R(-1), mse.val)) ELSE mse

\* The scoring dictionary of LRFisterGrid.fit: the metric names
Scoring(ground_truth_y) ==
    IF ground_truth_y # None THEN {"deconvolved", "reconvolved"}
    ELSE {"reconvolved"}

Scorer(name, c, a, X) ==
    IF name = "deconvolved" THEN neg_deconvolved_mse(c, a, X)
    ELSE neg_reconvolved_mse(c, a, X)

\* GridSearchCV(cv=5): KFold(5) without shuffling; fold f tests a block of
\* consecutive rows, the first n % 5 folds holding one row more.
cv == 5

TestRows(n, f) ==
    LET base == n \div cv
        extra == n % cv
        start == (f - 1) * base + (IF f - 1 < extra THEN f - 1 ELSE extra)
        size == base + (IF f <= extra THEN 1 ELSE 0)
    IN  (start + 1)..(start + size)

RECURSIVE TakeRows(_, _, _)
TakeRows(X, rows, k) ==
    IF k > Len(X) THEN <<>>
    ELSE (IF k \in rows THEN <<X[k]>> ELSE <<>>) \o TakeRows(X, rows, k + 1)

\* One (grid point, fold) task of the search: fit a clone on the training
\* rows, score it on the test and on the training rows with every metric.
\* A failing fit or scorer gives the error_score, NaN.
ScoreOrNaN(r) == IF r.ok THEN r.val ELSE NaN

ScoreOf(name, c, est, Xs) ==
    IF ~est.ok THEN NaN ELSE ScoreOrNaN(Scorer(name, c, est.val, Xs))

Scores(g, c, est, X_test, X_train) ==
    [test |-> [name \in Scoring(g.ground_truth_y) |-> ScoreOf(name, c, est, X_test)],
     train |-> [name \in Scoring(g.ground_truth_y) |-> ScoreOf(name, c, est, X_train)]]

FitAndScoreOn(g, c, X_test, X_train) ==
    Scores(g, c, FisterFit(c, X_train), X_test, X_train)

FitAndScoreSplit(g, c, X, test) ==
    FitAndScoreOn(g, c, TakeRows(X, test, 1), TakeRows(X, (1..Len(X)) \ test, 1))

FitAndScore(g, width, X, f) ==
    FitAndScoreSplit(g, GridEstimator(g, width), X, TestRows(Len(X), f))

\* np.mean over the folds of one grid point's scores
MeanOverFolds(scores, cand, split, name) ==
    RDiv(RSum(Tuple([f \in 1..cv |-> scores[<<cand, f>>][split][name]])), R(cv))

\* The keys of cv_results_ that LRFisterGrid reads
ResultKey(split, name) ==
    IF split = "test"
    THEN (IF name = "deconvolved" THEN "mean_test_deconvolved"
          ELSE "mean_test_reconvolved")
    ELSE (IF name = "deconvolved" THEN "mean_train_deconvolved"
          ELSE "mean_train_reconvolved")

\* GridSearchCV.cv_results_: for each metric of the scoring dictionary the
\* per-grid-point mean test and train score (the std_ columns are not modelled)
CvResults(g, scores) ==
    LET keys == { <<sp, nm>> : sp \in {"test", "train"},
                               nm \in Scoring(g.ground_truth_y) }
    IN  [key \in { ResultKey(k[1], k[2]) : k \in keys } |->
            LET k == CHOOSE kk \in keys : ResultKey(kk[1], kk[2]) = key
            IN  Tuple([cand \in 1..Len(g.regularizer_widths) |->
                          MeanOverFolds(scores, cand, k[1], k[2])])]

\* a is a strictly better mean score than b (NaN is worse than any number)
Better(a, b) ==
    IF IsNaN(a) THEN FALSE
    ELSE IF IsNaN(b) THEN TRUE
    ELSE RLess(b, a)

\* A selection that takes the lowest mean score.
BestIndexLowest(means) ==
    CHOOSE b \in 1..Len(means) :
        /\ \A k \in 1..Len(means) : ~Better(means[b], means[k])
        /\ \A k \in 1..(b - 1) : Better(means[k], means[b])

\* refit='reconvolved': best_index_ is the first grid point of rank 1 of
\* mean_test_reconvolved, i.e. the first one no other grid point beats
BestIndex(means) ==
    CHOOSE b \in 1..Len(means) :
        /\ \A k \in 1..Len(means) : ~Better(means[k], means[b])
        /\ \A k \in 1..(b - 1) : Better(means[b], means[k])

\* fit(X) enters GridSearchCV.fit: KFold(5) needs at least 5 rows.  The
\* selector is followed through one call of fit.
GridFitCall(X) ==
    /\ grid.pc = "idle"
    /\ grid.nfits < 1
    /\ IF Len(X) < cv
       THEN grid' = [grid EXCEPT !.nfits = @ + 1,
                        !.ret = [op |-> "fit", arg |-> X, ok |-> FALSE,
                                 exc |-> "ValueError", val |-> None]]
       ELSE grid' = [grid EXCEPT !.nfits = @ + 1, !.pc = "cv", !.X = X,
                        !.scores = << >>, !.ret = NoCall]
    /\ UNCHANGED <<cfg, attrs, frame, ret, hist, sink>>

\* n_jobs=-1: the (grid point, fold) tasks run in parallel, in any order
GridTask(cand, f) ==
    /\ grid.pc = "cv"
    /\ cand \in 1..Len(grid.regularizer_widths)
    /\ <<cand, f>> \notin DOMAIN grid.scores
    /\ grid' = [grid EXCEPT !.scores =
                   (<<cand, f>> :> FitAndScore(grid, grid.regularizer_widths[cand],
                                               grid.X, f)) @@ @]
    /\ UNCHANGED <<cfg, attrs, frame, ret, hist, sink>>

\* All tasks are done: cv_results_, best_index_, and the refit of a clone
\* with the winning width on the whole batch; an exception of the refit
\* leaves LRFisterGrid.fit.
Refitted(best, est) ==
    IF ~est.ok
    THEN grid' = [grid EXCEPT !.pc = "idle", !.scores = << >>,
                     !.ret = [op |-> "fit", arg |-> grid.X, ok |-> FALSE,
                              exc |-> est.exc, val |-> None]]
    ELSE grid' = [grid EXCEPT !.pc = "refit", !.best_index_ = best,
                     !.best_estimator_ = est.val]

Refit(best) ==
    Refitted(best, FisterFit(GridEstimator(grid, grid.regularizer_widths[best]),
                             grid.X))

GridRefit ==
    /\ grid.pc = "cv"
    /\ DOMAIN grid.scores = (1..Len(grid.regularizer_widths)) \X (1..cv)
    /\ Refit(BestIndex(CvResults(grid, grid.scores)["mean_test_reconvolved"]))
    /\ UNCHANGED <<cfg, attrs, frame, ret, hist, sink>>

\* Reading results[key]; a missing key raises KeyError
GetItem(results, key) ==
    IF key \in DOMAIN results THEN Ok(results[key]) ELSE Err("KeyError")

Negated(means) == Tuple([k \in 1..Len(means) |-> RMul(R(-1), means[k])])

\* LRFisterGrid.fit after GridSearchCV.fit returned: the assignments of the
\* fitted attributes in program order, up to the first one that raises.
GridAssign ==
    /\ grid.pc = "refit"
    /\ LET results == CvResults(grid, grid.scores)
           deconvolved_y_ == grid.best_estimator_.deconvolved_y_
           a1 == [grid.attrs EXCEPT
                     !.has = @ \cup {"measured_y_", "deconvolved_y_",
                                     "reconvolved_y_", "gridsearch_cv_results_"},
                     !.measured_y_ = mean_axis0(grid.X),
                     !.deconvolved_y_ = deconvolved_y_,
                     !.reconvolved_y_ = convolve(deconvolved_y_, grid.impulse_response_y),
                     !.gridsearch_cv_results_ = results]
           mean_test_deconvolved == GetItem(results, "mean_test_deconvolved")
           a2 == [a1 EXCEPT
                     !.has = @ \cup {"deconvolved_mse_", "reconvolved_mse_", "cv_"},
                     !.deconvolved_mse_ = Negated(mean_test_deconvolved.val),
                     !.reconvolved_mse_ = Negated(results["mean_train_reconvolved"]),
                     !.cv_ = Negated(results["mean_test_reconvolved"])]
       IN  IF ~mean_test_deconvolved.ok
           THEN grid' = [grid EXCEPT !.pc = "idle", !.attrs = a1,
                            !.ret = [op |-> "fit", arg |-> grid.X, ok |-> FALSE,
                                     exc |-> mean_test_deconvolved.exc, val |-> None]]
           ELSE grid' = [grid EXCEPT !.pc = "idle", !.attrs = a2,
                            !.ret = [op |-> "fit", arg |-> grid.X, ok |-> TRUE,
                                     exc |-> "none", val |-> None]]
    /\ UNCHANGED <<cfg, attrs, frame, ret, hist, sink>>

\* LRFisterGrid.predict: return self.deconvolved_y_
GridPredict(X) ==
    /\ grid.pc = "idle"
    /\ LET r == GetAttr(grid.attrs, "deconvolved_y_")
       IN  grid' = [grid EXCEPT !.ret = [op |-> "predict", arg |-> None, ok |-> r.ok,
                                          exc |-> r.exc, val |-> r.val]]
    /\ UNCHANGED <<cfg, attrs, frame, ret, hist, sink>>


(***************************************************************************)
(* Specifications.                                                         *)
(***************************************************************************)
\* One estimator used from one thread: fit, predict and score in any
\* order; beside it a selector on which fit is never called.
Init ==
    /\ InitOn({1}, Configs)
    /\ grid = GridConfig(GridImpulse, <<Q(1, 100), R(1000000000)>>, 1, None)

Next ==
    \/ \E i \in Insts, X \in Batches : FitCall(i, X, MaxFits)
    \/ \E i \in Insts : FitIter(i)
    \/ \E i \in Insts : FitReturn(i)
    \/ \E i \in Insts, X \in Batches : Predict(i, X)
    \/ \E i \in Insts, X \in Batches : Score(i, X)
    \/ \E X \in Batches : GridPredict(X)

Spec == Init /\ [][Next]_vars

\* Two estimators of the same class with the same impulse response and
\* iteration count, which may differ in ground_truth_y, logging and the
\* regularizer width; each is fitted once, the two fits running concurrently.
PairBatches ==
    { << <<R(0), R(2)>>, <<R(2), R(4)>> >>,
      << <<R(-1)>> >>,
      << <<R(0), R(1)>> >> }

SameRun(c, d) ==
    /\ c.kind = d.kind
    /\ c.impulse_response_x = d.impulse_response_x
    /\ c.impulse_response_y = d.impulse_response_y
    /\ c.iterations = d.iterations
    /\ c.alpha = d.alpha

InitPair ==
    /\ InitOn({1, 2}, {c \in Configs : c.iterations >= 1})
    /\ SameRun(cfg[1], cfg[2])
    /\ grid = GridConfig(GridImpulse, <<Q(1, 100), R(1000000000)>>, 1, None)

NextPair ==
    \/ \E i \in Insts, X \in PairBatches : FitCall(i, X, 1)
    \/ \E i \in Insts : FitIter(i)
    \/ \E i \in Insts : FitReturn(i)

SpecPair == InitPair /\ [][NextPair]_vars

\* The selector alone.
InitGrid ==
    /\ InitOn({}, Configs)
    /\ grid \in GridConfigs

NextGrid ==
    \/ \E X \in GridBatches : GridFitCall(X)
    \/ \E cand \in 1..2, f \in 1..cv : GridTask(cand, f)
    \/ GridRefit
    \/ GridAssign
    \/ \E X \in GridBatches : GridPredict(X)

SpecGrid == InitGrid /\ [][NextGrid]_vars

(***************************************************************************)
(* Properties.                                                             *)
(***************************************************************************)
\* The fit call counted last on instance i has ended.
Ended(i) == frame[i].pc = "idle" /\ hist[i].nfits > 0

\* C1: after a fit call that failed, the instance is Unfit: none of
\* measured_y_, deconvolved_y_, reconvolved_y_ is set, whatever an earlier
\* fit had stored.
C1_FailedFitLeavesUnfit ==
    \A i \in Insts :
        (Ended(i) /\ ~hist[i].last.ok) => attrs[i].has = {}

\* C2: on an estimator on which no fit has completed, predict and score
\* raise the usage error (AttributeError) and return nothing; so does
\* LRFisterGrid.predict before fit.
C2_CallsBeforeFitRaise ==
    /\ \A i \in Insts :
          (ret[i].op \in {"predict", "score"} /\ hist[i].good.has = {})
              => (~ret[i].ok /\ ret[i].exc = "AttributeError" /\ ret[i].val = None)
    /\ (grid.ret.op = "predict" /\ grid.nfits = 0)
          => (~grid.ret.ok /\ grid.ret.exc = "AttributeError" /\ grid.ret.val = None)

\* C2 witness: score raised on an estimator whose only fit failed, and
\* predict raised on the fresh selector.
C2_Witness ==
    /\ ret[1].op = "score" /\ ~ret[1].ok
    /\ hist[1].nfits > 0 /\ hist[1].good.has = {}
    /\ grid.ret.op = "predict" /\ ~grid.ret.ok

\* C3: without a ground truth, a fit of the selector that got past the
\* fold split completes and exposes the reconvolved score table.
C3_FitWithoutGroundTruthCompletes ==
    (grid.ret.op = "fit" /\ grid.ground_truth_y = None /\ Len(grid.ret.arg) >= cv)
        => (grid.ret.ok /\ {"deconvolved_y_", "reconvolved_y_", "cv_"} \subseteq grid.attrs.has)

\* The fitted attributes exposed by the selector are those of `refit`.
ExposesRefit(refit) ==
    /\ refit.ok
    /\ grid.attrs.deconvolved_y_ = refit.val.deconvolved_y_
    /\ grid.attrs.reconvolved_y_ =
          convolve(refit.val.deconvolved_y_, grid.impulse_response_y)

\* C4: the selected grid point has the greatest mean test 'reconvolved'
\* score (the least mean held-out MSE, cv_); the exposed deconvolved signal
\* is the refit on the whole batch with the winning width, the exposed
\* reconvolved signal its convolution with the impulse response.
C4_SelectsBestMeanReconvolved ==
    ("deconvolved_y_" \in grid.attrs.has) =>
        LET widths == grid.regularizer_widths
            b == grid.best_index_
            M(k) == MeanOverFolds(grid.scores, k, "test", "reconvolved")
        IN  /\ b \in 1..Len(widths)
            /\ \A k \in 1..Len(widths) : RLeq(M(k), M(b))
            /\ ("cv_" \in grid.attrs.has) =>
                  \A k \in 1..Len(widths) : RLeq(grid.attrs.cv_[b], grid.attrs.cv_[k])
            /\ ExposesRefit(FisterFit(GridEstimator(grid, widths[b]), grid.X))

\* C4 witness: a completed fit with ground truth in which the second grid
\* point won although the 'deconvolved' metric ranks the first one higher.
C4_Witness ==
    /\ grid.ret.op = "fit" /\ grid.ret.ok
    /\ grid.best_index_ = 2
    /\ RLess(MeanOverFolds(grid.scores, 1, "test", "reconvolved"),
             MeanOverFolds(grid.scores, 2, "test", "reconvolved"))
    /\ RLess(MeanOverFolds(grid.scores, 2, "test", "deconvolved"),
             MeanOverFolds(grid.scores, 1, "test", "deconvolved"))

\* The L2 correction of this pass takes the square root of a negative number.
NegativeRadicand(c, measured_y, previous_O) ==
    LET lr == LRUpdate(c.impulse_response_y, measured_y, previous_O)
    IN  /\ lr.ok
        /\ \E k \in 1..Len(lr.val) :
              LET radicand == RAdd(R(1), RMul(RMul(R(2), c.alpha), lr.val[k]))
              IN  ~IsNaN(radicand) /\ radicand[1] < 0

\* C5: an LRL2Deconvolve fit in which some pass has a negative radicand
\* 1 + 2*alpha*O fails; a fit that succeeded had none.
C5_NegativeRadicandFails ==
    \A i \in Insts :
        (cfg[i].kind = "LRL2Deconvolve" /\ hist[i].last.ok) =>
            \A k \in 1..hist[i].last.steps :
                ~NegativeRadicand(cfg[i], mean_axis0(hist[i].last.X),
                                  hist[i].last.trace[k])

\* The (namespace, scalar name, step) keys written so far by the fit in
\* progress on instance i.
Keys(i) == { <<LogDir(cfg[i]), e[1], e[2]>> : e \in Range(frame[i].logged) }

\* C6: two fits running at the same time on distinct instances never
\* write the same (namespace, scalar name, step) key.
C6_ConcurrentFitsUseDistinctKeys ==
    \A i \in Insts : \A j \in Insts \ {i} :
        (frame[i].pc = "loop" /\ frame[j].pc = "loop")
            => Keys(i) \cap Keys(j) = {}

\* C7: two fits of the same batch by estimators that differ only in
\* ground_truth_y and in logging end alike: both fail or both succeed, and
\* then with the same deconvolved and reconvolved signals.
C7_GroundTruthAndTelemetryDoNotInfluenceFit ==
    \A i \in Insts : \A j \in Insts \ {i} :
        ( /\ Ended(i) /\ Ended(j)
          /\ SameRun(cfg[i], cfg[j])
          /\ cfg[i].regularizer_width = cfg[j].regularizer_width
          /\ hist[i].last.X = hist[j].last.X )
        => /\ hist[i].last.ok = hist[j].last.ok
           /\ hist[i].last.ok =>
                 /\ attrs[i].deconvolved_y_ = attrs[j].deconvolved_y_
                 /\ attrs[i].reconvolved_y_ = attrs[j].reconvolved_y_

IsReconstruction(e) == e[1] = "reconstruction_mse"

\* C8: a fit that succeeded made exactly `iterations` passes, each from the
\* estimate of the pass before, starting from the measured signal, and
\* stored the estimate of the last pass; with telemetry, reconstruction_mse
\* was written once per pass at steps 0, 1, ..., iterations-1 in this order,
\* each value computed from the estimate that pass produced.
C8_ExactlyNUpdates ==
    \A i \in Insts :
        LET c == cfg[i]
            l == hist[i].last
            N == c.iterations
            m == mean_axis0(l.X)
        IN  l.ok =>
              /\ N >= 1
              /\ l.steps = N
              /\ Len(l.trace) = N + 1
              /\ l.trace[1] = m
              /\ \A k \in 1..N : LoopBody(c, m, l.trace[k]) = Ok(l.trace[k + 1])
              /\ hist[i].good.deconvolved_y_ = l.trace[N + 1]
              /\ \A a \in 1..Len(l.logged) : \A b \in a..Len(l.logged) :
                    l.logged[a][2] <= l.logged[b][2]
              /\ IF Logs(c)
                 THEN /\ SelectSeq(l.logged, IsReconstruction)
                            = [k \in 1..N |-> <<"reconstruction_mse", k - 1>>]
                      /\ \A k \in 1..N :
                            \E r \in sink :
                               /\ r.ns = LogDir(c) /\ r.tag = "reconstruction_mse"
                               /\ r.step = k - 1
                               /\ r.val = mean_squared_error(
                                              convolve(l.trace[k + 1], c.impulse_response_y),
                                              m).val
                 ELSE l.logged = <<>>

\* C8 witness: a successful logging fit of MaxIter passes, each of which
\* changed the estimate.
C8_Witness ==
    \E i \in Insts :
        /\ hist[i].last.ok /\ Logs(cfg[i])
        /\ cfg[i].iterations = MaxIter
        /\ \A k \in 1..MaxIter : hist[i].last.trace[k] # hist[i].last.trace[k + 1]

\* C9: while the last fit succeeded, the fitted attributes are those it
\* stored whatever predict and score calls came after it; predict returns
\* the stored deconvolved signal; a score that returns a value returns
\* minus the MSE between the column means of its argument and the stored
\* reconvolved signal, a value <= 0.
C9_PredictScoreReadOnly ==
    \A i \in Insts :
        (frame[i].pc = "idle" /\ hist[i].last.ok) =>
            /\ attrs[i] = hist[i].good
            /\ ret[i].op = "predict" =>
                  (ret[i].ok /\ ret[i].val = hist[i].good.deconvolved_y_)
            /\ ret[i].op = "score" =>
                  LET mse == mean_squared_error(mean_axis0(ret[i].arg),
                                                hist[i].good.reconvolved_y_)
                  IN  /\ ret[i].ok = mse.ok
                      /\ ret[i].ok =>
                            /\ ret[i].val = RSub(R(0), mse.val)
                            /\ RLeq(ret[i].val, R(0))

\* C9 witness: after a successful fit, a score call returned a negative value.
C9_Witness ==
    /\ hist[1].last.ok
    /\ ret[1].op = "score" /\ ret[1].ok
    /\ RLess(ret[1].val, R(0))

\* C10: a fit that succeeded kept every estimate at the length of the
\* measured signal and stored a reconvolved signal of that length.
C10_ConsistentLengthsOrFailure ==
    \A i \in Insts :
        hist[i].last.ok =>
            LET m == Len(mean_axis0(hist[i].last.X))
            IN  /\ \A k \in 1..Len(hist[i].last.trace) : Len(hist[i].last.trace[k]) = m
                /\ Len(hist[i].good.reconvolved_y_) = m

=============================================================================
